---- MODULE Spec2Model ----
(***************************************************************************)
(* FreshKart daily sales consolidation pipeline (src/pipeline.py).         *)
(*                                                                         *)
(* A DataFrame is a sequence of rows, a row is a record.  Money is counted *)
(* in whole euros (integers): the claims are about which rows are summed,  *)
(* not about floating point rounding.  A nullable number (NaN) is the      *)
(* empty tuple or a one-element tuple; a nullable string is the string NA; *)
(* a timestamp is <<date, hour>> and NaT is the empty tuple.               *)
(***************************************************************************)
EXTENDS FiniteSets, Integers, Sequences, TLC

VARIABLES
    pc,                 \* position of main(): the stage that runs next, or how the run ended
    date_str,           \* the argument of main()
    runs,               \* number of invocations of main() so far
    unavailable,        \* the input files that are missing or unreadable in this run
    customers_csv,      \* data/input/customers.csv
    orders_json,        \* data/input/orders_{date_str}.json
    refunds_csv,        \* data/input/refunds.csv
    df_customers,       \* main()'s locals
    df_orders,
    df_items,
    df_refunds,
    df_items_clean,
    df_items_rejected,  \* clean_data()'s local
    df_items_full,
    df_order_revenue,
    df_daily_summary,
    rejected_items_csv, \* data/out/rejected_items_{date}.csv, per date
    daily_summary_csv,  \* data/out/daily_summary_{date}.csv, per date
    orders_clean,       \* sales.db, table orders_clean
    daily_city_sales    \* sales.db, table daily_city_sales

inputs  == <<unavailable, customers_csv, orders_json, refunds_csv>>
locals  == <<df_customers, df_orders, df_items, df_refunds, df_items_clean,
             df_items_rejected, df_items_full, df_order_revenue, df_daily_summary>>
outputs == <<rejected_items_csv, daily_summary_csv, orders_clean, daily_city_sales>>
vars    == <<pc, date_str, runs, inputs, locals, outputs>>

-----------------------------------------------------------------------------
(* Missing values *)

NA  == "<NA>"       \* a missing string (NaN / None in an object column)
NaN == <<>>         \* a missing number
NaT == <<>>         \* a missing timestamp

-----------------------------------------------------------------------------
(* Sequence helpers *)

RECURSIVE SumSeq(_)
SumSeq(s) == IF s = <<>> THEN 0 ELSE Head(s) + SumSeq(Tail(s))

RECURSIVE MapSeq(_, _)
MapSeq(F(_), s) == IF s = <<>> THEN <<>> ELSE <<F(Head(s))>> \o MapSeq(F, Tail(s))

RECURSIVE Flatten(_)
Flatten(ss) == IF ss = <<>> THEN <<>> ELSE Head(ss) \o Flatten(Tail(ss))

Range(s) == {s[i] : i \in 1..Len(s)}

\* The elements of a finite set of integers in increasing order.
RECURSIVE SortedInts(_)
SortedInts(S) ==
    IF S = {} THEN <<>>
    ELSE LET m == CHOOSE x \in S : \A y \in S : x <= y
         IN  <<m>> \o SortedInts(S \ {m})

\* pandas' "first": the first non-null value of a column, null if there is none.
RECURSIVE First(_, _)
First(col, null) ==
    IF col = <<>> THEN null
    ELSE IF Head(col) = null THEN First(Tail(col), null)
    ELSE Head(col)

\* The rows of a frame that satisfy a condition (DataFrame.query).
Query(df, Cond(_)) == SelectSeq(df, Cond)

\* The values of one column, in row order.
Column(df, F(_)) == MapSeq(F, df)

-----------------------------------------------------------------------------
(* load_data *)

\* pd.DataFrame(data): one row per order record, the nested items kept as a column.
orders_frame(data) == data

ItemRow(r, it) ==
    [order_id |-> r.order_id, customer_id |-> r.customer_id, channel |-> r.channel,
     created_at |-> r.created_at, payment_status |-> r.payment_status,
     qty |-> it.qty, unit_price |-> it.unit_price]

\* pd.json_normalize(data, record_path="items", meta=[...]): one row per line item,
\* in file order, the order-level fields copied onto each.
json_normalize(data) ==
    Flatten(MapSeq(LAMBDA r : MapSeq(LAMBDA it : ItemRow(r, it), r.items), data))

\* sources_readable with a missing refund ledger read as an empty one.
sources_readable_without_refunds(missing) == missing \subseteq {"refunds"}

\* The reads of load_data raise unless the three files can be read.
sources_readable(missing) == missing = {}

-----------------------------------------------------------------------------
(* clean_data *)

\* filter_active without the filter: every customer is kept.
filter_active_keeping_all(customers) == customers

\* df_customers.query("is_active == True")
filter_active(customers) == Query(customers, LAMBDA c : c.is_active = TRUE)

\* df.query("payment_status == 'paid'")
filter_paid(df) == Query(df, LAMBDA r : r.payment_status = "paid")

\* drop_duplicates(subset="order_id", keep="first")
RECURSIVE drop_duplicates_from(_, _)
drop_duplicates_from(df, seen) ==
    IF df = <<>> THEN <<>>
    ELSE IF Head(df).order_id \in seen THEN drop_duplicates_from(Tail(df), seen)
    ELSE <<Head(df)>> \o drop_duplicates_from(Tail(df), seen \cup {Head(df).order_id})

drop_duplicates(df) == drop_duplicates_from(df, {})

\* A comparison with NaN is false, whichever way it is asked.
price_ge_0(p) == p # NaN /\ p[1] >= 0
price_lt_0(p) == p # NaN /\ p[1] < 0

items_valid(items)    == Query(items, LAMBDA r : price_ge_0(r.unit_price))
items_rejected(items) == Query(items, LAMBDA r : price_lt_0(r.unit_price))

NoFile == [exists |-> FALSE, rows |-> <<>>]
File(rows) == [exists |-> TRUE, rows |-> rows]

\* write_rejected with the file written whether or not there are rejected items.
write_rejected_always(file, rejected) == File(rejected)

\* if not df_items_rejected.empty: to_csv(...) else: print("NO REJECTED ITEMS")
write_rejected(file, rejected) == IF rejected # <<>> THEN File(rejected) ELSE file

\* The queries of clean_data raise on a frame that lacks the column they name: a file
\* without records gives df_orders no payment_status column, a file without line
\* items gives df_items no unit_price column.
columns_present(orders, items) == orders # <<>> /\ items # <<>>

clean_data(customers, orders, items) ==
    LET paid_items == filter_paid(items)
    IN  [df_customers      |-> filter_active(customers),
         df_orders         |-> drop_duplicates(filter_paid(orders)),
         df_items_clean    |-> items_valid(paid_items),
         df_items_rejected |-> items_rejected(paid_items)]

-----------------------------------------------------------------------------
(* enrich_and_calculate *)

\* items.merge(customers[["customer_id", "city"]], on="customer_id", how="inner")
\* .assign(line_total = qty * unit_price)
merge_customers(items, customers) ==
    Flatten(MapSeq(
        LAMBDA r : MapSeq(
            LAMBDA c : [order_id |-> r.order_id, customer_id |-> r.customer_id,
                        channel |-> r.channel, created_at |-> r.created_at,
                        payment_status |-> r.payment_status, qty |-> r.qty,
                        unit_price |-> r.unit_price, city |-> c.city,
                        line_total |-> r.qty * r.unit_price[1]],
            Query(customers, LAMBDA c : c.customer_id = r.customer_id)),
        items))

\* The groups of groupby("order_id"): its keys in increasing order.
order_keys(df) == SortedInts({r.order_id : r \in Range(df)})

group_of(df, k) == Query(df, LAMBDA r : r.order_id = k)

\* groupby("order_id").agg(line_total sum, the other columns first)
order_revenue(items_full) ==
    MapSeq(LAMBDA k :
             LET g == group_of(items_full, k)
             IN  [order_id      |-> k,
                  gross_revenue |-> SumSeq(Column(g, LAMBDA r : r.line_total)),
                  customer_id   |-> Head(g).customer_id,
                  channel       |-> First(Column(g, LAMBDA r : r.channel), NA),
                  city          |-> First(Column(g, LAMBDA r : r.city), NA),
                  created_at    |-> First(Column(g, LAMBDA r : r.created_at), NaT)],
           order_keys(items_full))

\* refunds_agg without the restriction and the grouping: every valid order gets the
\* total of the ledger.
refunds_agg_whole_ledger(refunds, valid_orders) ==
    MapSeq(LAMBDA k :
             [order_id       |-> k,
              refunds_amount |-> SumSeq(Column(refunds, LAMBDA r : r.amount))],
           SortedInts(valid_orders))

\* refunds.query("order_id.isin(@valid_orders)").groupby("order_id").agg(amount sum)
refunds_agg(refunds, valid_orders) ==
    LET scoped == Query(refunds, LAMBDA r : r.order_id \in valid_orders)
    IN  MapSeq(LAMBDA k :
                 [order_id       |-> k,
                  refunds_amount |-> SumSeq(Column(group_of(scoped, k), LAMBDA r : r.amount))],
               order_keys(scoped))

\* merge_refunds with the refund subtracted instead of added.
merge_refunds_subtracting(revenue, agg) ==
    MapSeq(LAMBDA o :
             LET m == group_of(agg, o.order_id)
                 refunds_amount == IF m = <<>> THEN 0 ELSE Head(m).refunds_amount
             IN  [order_id       |-> o.order_id,
                  gross_revenue  |-> o.gross_revenue,
                  customer_id    |-> o.customer_id,
                  channel        |-> o.channel,
                  city           |-> o.city,
                  created_at     |-> o.created_at,
                  refunds_amount |-> refunds_amount,
                  net_revenue    |-> o.gross_revenue - refunds_amount],
           revenue)

\* merge(df_refunds_agg, on="order_id", how="left"), fillna(0), net_revenue
merge_refunds(revenue, agg) ==
    MapSeq(LAMBDA o :
             LET m == group_of(agg, o.order_id)
                 refunds_amount == IF m = <<>> THEN 0 ELSE Head(m).refunds_amount
             IN  [order_id       |-> o.order_id,
                  gross_revenue  |-> o.gross_revenue,
                  customer_id    |-> o.customer_id,
                  channel        |-> o.channel,
                  city           |-> o.city,
                  created_at     |-> o.created_at,
                  refunds_amount |-> refunds_amount,
                  net_revenue    |-> o.gross_revenue + refunds_amount],
           revenue)

enrich_and_calculate(items_clean, customers, refunds) ==
    LET items_full   == merge_customers(items_clean, customers)
        revenue      == order_revenue(items_full)
        valid_orders == {o.order_id : o \in Range(revenue)}
    IN  [df_items_full    |-> items_full,
         df_order_revenue |-> merge_refunds(revenue, refunds_agg(refunds, valid_orders))]

-----------------------------------------------------------------------------
(* aggregate_daily *)

\* pd.to_datetime(created_at).dt.date: the calendar date of a timestamp, null for NaT.
to_date(ts) == IF ts = NaT THEN NA ELSE ts[1]

\* groupby("order_id").qty.sum() over the enriched items
items_count(items_full) ==
    MapSeq(LAMBDA k :
             [order_id   |-> k,
              items_sold |-> SumSeq(Column(group_of(items_full, k), LAMBDA r : r.qty))],
           order_keys(items_full))

\* The date column, then the left merge with the item counts (0 stands for no match).
with_date_and_items(revenue, counts) ==
    MapSeq(LAMBDA o :
             LET m == group_of(counts, o.order_id)
             IN  [order_id       |-> o.order_id,
                  gross_revenue  |-> o.gross_revenue,
                  customer_id    |-> o.customer_id,
                  channel        |-> o.channel,
                  city           |-> o.city,
                  created_at     |-> o.created_at,
                  refunds_amount |-> o.refunds_amount,
                  net_revenue    |-> o.net_revenue,
                  date           |-> to_date(o.created_at),
                  items_sold     |-> IF m = <<>> THEN 0 ELSE Head(m).items_sold],
           revenue)

\* The values of the grouping columns, each list in pandas' sort order.
DateOrder    == <<"2024-01-15", "2024-01-16">>
CityOrder    == <<"Lyon", "Paris">>
ChannelOrder == <<"app", "web">>

Rank(v, order) == CHOOSE i \in 1..Len(order) : order[i] = v

KeyLeq(a, b) ==
    LET ra == <<Rank(a[1], DateOrder), Rank(a[2], CityOrder), Rank(a[3], ChannelOrder)>>
        rb == <<Rank(b[1], DateOrder), Rank(b[2], CityOrder), Rank(b[3], ChannelOrder)>>
    IN  \/ ra[1] < rb[1]
        \/ ra[1] = rb[1] /\ ra[2] < rb[2]
        \/ ra[1] = rb[1] /\ ra[2] = rb[2] /\ ra[3] <= rb[3]

RECURSIVE SortedKeys(_)
SortedKeys(S) ==
    IF S = {} THEN <<>>
    ELSE LET m == CHOOSE x \in S : \A y \in S : KeyLeq(x, y)
         IN  <<m>> \o SortedKeys(S \ {m})

GroupKey(r) == <<r.date, r.city, r.channel>>

\* groupby drops the rows that have a null in a grouping column (dropna=True).
has_group(r) == r.date # NA /\ r.city # NA /\ r.channel # NA

\* daily_summary with the channel left out of the grouping: a row sums the orders of
\* its date and city, whatever their channel.
daily_summary_ignoring_channel(revenue) ==
    LET kept == Query(revenue, has_group)
    IN  MapSeq(LAMBDA k :
                 LET g == Query(kept, LAMBDA r : r.date = k[1] /\ r.city = k[2])
                 IN  [date              |-> k[1],
                      city              |-> k[2],
                      channel           |-> k[3],
                      orders_count      |-> Len(g),
                      unique_customers  |-> Cardinality({r.customer_id : r \in Range(g)}),
                      items_sold        |-> SumSeq(Column(g, LAMBDA r : r.items_sold)),
                      gross_revenue_eur |-> SumSeq(Column(g, LAMBDA r : r.gross_revenue)),
                      refunds_eur       |-> SumSeq(Column(g, LAMBDA r : r.refunds_amount)),
                      net_revenue_eur   |-> SumSeq(Column(g, LAMBDA r : r.net_revenue))],
               SortedKeys({GroupKey(r) : r \in Range(kept)}))

\* groupby(["date", "city", "channel"]).agg(count, nunique, sums), keys in sort order
daily_summary(revenue) ==
    LET kept == Query(revenue, has_group)
    IN  MapSeq(LAMBDA k :
                 LET g == Query(kept, LAMBDA r : GroupKey(r) = k)
                 IN  [date              |-> k[1],
                      city              |-> k[2],
                      channel           |-> k[3],
                      orders_count      |-> Len(g),
                      unique_customers  |-> Cardinality({r.customer_id : r \in Range(g)}),
                      items_sold        |-> SumSeq(Column(g, LAMBDA r : r.items_sold)),
                      gross_revenue_eur |-> SumSeq(Column(g, LAMBDA r : r.gross_revenue)),
                      refunds_eur       |-> SumSeq(Column(g, LAMBDA r : r.refunds_amount)),
                      net_revenue_eur   |-> SumSeq(Column(g, LAMBDA r : r.net_revenue))],
               SortedKeys({GroupKey(r) : r \in Range(kept)}))

aggregate_daily(revenue, items_full) ==
    LET full == with_date_and_items(revenue, items_count(items_full))
    IN  [df_daily_summary |-> daily_summary(full),
         df_order_revenue |-> full]

-----------------------------------------------------------------------------
(* export_results *)

\* to_sql with if_exists="replace".
to_sql_replacing(table, df) == df

\* DataFrame.to_sql(table, conn, if_exists="append", index=False)
to_sql(table, df) == table \o df

\* The writes of export_results, in order; a write that raises ends the run, and what
\* the earlier writes have stored stays (each to_sql commits on its own).
SinkWrites == <<"daily_summary_csv", "orders_clean", "daily_city_sales">>

\* The number of writes that complete when `fault` is the write that raises
\* ("none": all of them do).
writes_done(fault) ==
    IF fault = "none" THEN Len(SinkWrites) ELSE Rank(fault, SinkWrites) - 1

-----------------------------------------------------------------------------
(* main *)

\* What stages 1 to 5 of main() compute from the contents of the three input files.
run_pipeline(customers, data, refunds) ==
    LET c == clean_data(customers, orders_frame(data), json_normalize(data))
        e == enrich_and_calculate(c.df_items_clean, c.df_customers, refunds)
        a == aggregate_daily(e.df_order_revenue, e.df_items_full)
    IN  [df_orders         |-> c.df_orders,
         df_items_rejected |-> c.df_items_rejected,
         df_order_revenue  |-> a.df_order_revenue,
         df_daily_summary  |-> a.df_daily_summary]

\* One action per stage of main().

Sources == {"customers", "orders", "refunds"}

\* main(date_str) is invoked: the environment has put the input files in place.
Invoke(dates, tables, files, ledgers, faults, maxRuns) ==
    /\ pc \in {"idle", "done", "load_failed", "clean_failed", "export_failed"}
    /\ runs < maxRuns
    /\ \E d \in dates, c \in tables, o \in files, r \in ledgers, m \in faults :
         /\ date_str' = d
         /\ unavailable' = m
         /\ customers_csv' = IF "customers" \in m THEN <<>> ELSE c
         /\ orders_json'   = IF "orders" \in m THEN <<>> ELSE o
         /\ refunds_csv'   = IF "refunds" \in m THEN <<>> ELSE r
    /\ runs' = runs + 1
    /\ pc' = "load"
    /\ df_customers' = <<>> /\ df_orders' = <<>> /\ df_items' = <<>> /\ df_refunds' = <<>>
    /\ df_items_clean' = <<>> /\ df_items_rejected' = <<>> /\ df_items_full' = <<>>
    /\ df_order_revenue' = <<>> /\ df_daily_summary' = <<>>
    /\ UNCHANGED outputs

Load ==
    /\ pc = "load"
    /\ IF sources_readable(unavailable)
       THEN /\ df_customers' = customers_csv
            /\ df_orders' = orders_frame(orders_json)
            /\ df_items' = json_normalize(orders_json)
            /\ df_refunds' = refunds_csv
            /\ pc' = "clean"
       ELSE /\ pc' = "load_failed"
            /\ UNCHANGED <<df_customers, df_orders, df_items, df_refunds>>
    /\ UNCHANGED <<date_str, runs, inputs, outputs, df_items_clean, df_items_rejected,
                   df_items_full, df_order_revenue, df_daily_summary>>

Clean ==
    /\ pc = "clean"
    /\ IF columns_present(df_orders, df_items)
       THEN LET out == clean_data(df_customers, df_orders, df_items)
            IN  /\ df_customers' = out.df_customers
                /\ df_orders' = out.df_orders
                /\ df_items_clean' = out.df_items_clean
                /\ df_items_rejected' = out.df_items_rejected
                /\ rejected_items_csv' =
                       [rejected_items_csv EXCEPT
                          ![date_str] = write_rejected(@, out.df_items_rejected)]
                /\ pc' = "enrich"
       ELSE /\ pc' = "clean_failed"
            /\ UNCHANGED <<df_customers, df_orders, df_items_clean, df_items_rejected,
                           rejected_items_csv>>
    /\ UNCHANGED <<date_str, runs, inputs, df_items, df_refunds, df_items_full,
                   df_order_revenue, df_daily_summary, daily_summary_csv,
                   orders_clean, daily_city_sales>>

Enrich ==
    /\ pc = "enrich"
    /\ LET out == enrich_and_calculate(df_items_clean, df_customers, df_refunds)
       IN  /\ df_items_full' = out.df_items_full
           /\ df_order_revenue' = out.df_order_revenue
    /\ pc' = "aggregate"
    /\ UNCHANGED <<date_str, runs, inputs, outputs, df_customers, df_orders, df_items,
                   df_refunds, df_items_clean, df_items_rejected, df_daily_summary>>

Aggregate ==
    /\ pc = "aggregate"
    /\ LET out == aggregate_daily(df_order_revenue, df_items_full)
       IN  /\ df_daily_summary' = out.df_daily_summary
           /\ df_order_revenue' = out.df_order_revenue
    /\ pc' = "export"
    /\ UNCHANGED <<date_str, runs, inputs, outputs, df_customers, df_orders, df_items,
                   df_refunds, df_items_clean, df_items_rejected, df_items_full>>

Export(sinkFaults) ==
    /\ pc = "export"
    /\ \E fault \in sinkFaults :
         LET n == writes_done(fault)
         IN  /\ daily_summary_csv' =
                    IF n >= 1 THEN [daily_summary_csv EXCEPT ![date_str] = File(df_daily_summary)]
                    ELSE daily_summary_csv
             /\ orders_clean' =
                    IF n >= 2 THEN to_sql(orders_clean, df_order_revenue) ELSE orders_clean
             /\ daily_city_sales' =
                    IF n >= 3 THEN to_sql(daily_city_sales, df_daily_summary)
                    ELSE daily_city_sales
             /\ pc' = IF fault = "none" THEN "done" ELSE "export_failed"
    /\ UNCHANGED <<date_str, runs, inputs, locals, rejected_items_csv>>

-----------------------------------------------------------------------------
(* The inputs the environment can supply *)

SeqsUpTo(S, n) == UNION {[1..k -> S] : k \in 0..n}

\* The order-level fields of the records of a day's file: every combination of the
\* given values.
OrderHeaders(oids, cids, chans, times, statuses) ==
    [order_id : oids, customer_id : cids, channel : chans, created_at : times,
     payment_status : statuses]

OrderRecord(h, items) ==
    [order_id |-> h.order_id, customer_id |-> h.customer_id, channel |-> h.channel,
     created_at |-> h.created_at, payment_status |-> h.payment_status, items |-> items]

\* The day's files of at most maxOrders records and at most maxLines line items.
LinesIn(file) == SumSeq(MapSeq(LAMBDA r : Len(r.items), file))

OrderFiles(headers, lines, maxOrders, maxLines) ==
    LET records == {OrderRecord(h, items) : h \in headers, items \in SeqsUpTo(lines, maxLines)}
    IN  UNION {{f \in [1..k -> records] : LinesIn(f) <= maxLines} : k \in 0..maxOrders}

\* Customer reference tables: customer_id is the table's key, so a table has at most
\* one row per id, or none; the rows are those of `rows` with that id.
RECURSIVE CustomerTables(_, _)
CustomerTables(ids, rows) ==
    IF ids = <<>> THEN {<<>>}
    ELSE {h \o t : h \in {<<>>} \cup {<<r>> : r \in {x \in rows : x.customer_id = Head(ids)}},
                   t \in CustomerTables(Tail(ids), rows)}

CustomerRows(ids, cities, actives) ==
    [customer_id : ids, city : cities, is_active : actives]

T1 == <<"2024-01-15", 10>>
T2 == <<"2024-01-16", 9>>

MaxOrders  == 2     \* order records in a day's file
MaxLines   == 2     \* line items in a day's file
MaxRefunds == 1     \* rows of the refund ledger
MaxRuns    == 3     \* invocations of main()

Init ==
    /\ pc = "idle"
    /\ date_str = "2024-01-15"
    /\ runs = 0
    /\ unavailable = {}
    /\ customers_csv = <<>> /\ orders_json = <<>> /\ refunds_csv = <<>>
    /\ df_customers = <<>> /\ df_orders = <<>> /\ df_items = <<>> /\ df_refunds = <<>>
    /\ df_items_clean = <<>> /\ df_items_rejected = <<>> /\ df_items_full = <<>>
    /\ df_order_revenue = <<>> /\ df_daily_summary = <<>>
    /\ rejected_items_csv = [d \in Range(DateOrder) |-> NoFile]
    /\ daily_summary_csv = [d \in Range(DateOrder) |-> NoFile]
    /\ orders_clean = <<>>
    /\ daily_city_sales = <<>>

-----------------------------------------------------------------------------
(* SpecClean: one run over files that vary in payment status, unit price,  *)
(* repeated order ids and customer activity (a customer may have no row).  *)

CleanHeaders == OrderHeaders({1, 2}, {1, 2}, {"web"}, {T1}, {"paid", "pending"})
CleanLines   == [qty : {1}, unit_price : {<<-5>>, <<0>>, <<10>>, NaN}]

CleanTables ==
    CustomerTables(<<1, 2>>, CustomerRows({1, 2}, {"Paris"}, BOOLEAN))

InvokeClean ==
    Invoke({"2024-01-15"}, CleanTables, OrderFiles(CleanHeaders, CleanLines, MaxOrders, MaxLines),
           {<<>>}, {{}}, 1)

NextClean == InvokeClean \/ Load \/ Clean \/ Enrich \/ Aggregate \/ Export({"none"})

SpecClean == Init /\ [][NextClean]_vars

-----------------------------------------------------------------------------
(* SpecJoin: one run over files that vary in payment status, the sign of   *)
(* the price, repeated order ids, and customers that are active or not.    *)

JoinHeaders == OrderHeaders({1, 2}, {1, 2}, {"web"}, {T1}, {"paid", "pending"})
JoinLines   == [qty : {1}, unit_price : {<<-5>>, <<10>>}]

JoinTables ==
    {t \in CustomerTables(<<1, 2>>, CustomerRows({1}, {"Paris"}, {FALSE})
                                      \cup CustomerRows({2}, {"Paris"}, BOOLEAN)) :
        Len(t) = 2}

InvokeJoin ==
    Invoke({"2024-01-15"}, JoinTables, OrderFiles(JoinHeaders, JoinLines, MaxOrders, MaxLines),
           {<<>>}, {{}}, 1)

NextJoin == InvokeJoin \/ Load \/ Clean \/ Enrich \/ Aggregate \/ Export({"none"})

SpecJoin == Init /\ [][NextJoin]_vars

-----------------------------------------------------------------------------
(* SpecRefund: one run over a refund ledger whose rows name an order of the *)
(* day (1) or an older one (3), with either sign, and files that vary in    *)
(* payment status (order 1), the sign of the price and the customer's       *)
(* activity.                                                                *)

RefundHeaders ==
    {h \in OrderHeaders({1, 2}, {1}, {"web"}, {T1}, {"paid", "pending"}) :
        h.order_id = 1 \/ h.payment_status = "paid"}
RefundLines   == [qty : {2}, unit_price : {<<-5>>, <<10>>}]
RefundRows    == {[order_id |-> 1, amount |-> -5], [order_id |-> 1, amount |-> 5],
                  [order_id |-> 3, amount |-> -5]}

RefundTables ==
    {t \in CustomerTables(<<1>>, CustomerRows({1}, {"Paris"}, BOOLEAN)) : Len(t) = 1}

InvokeRefund ==
    Invoke({"2024-01-15"}, RefundTables,
           OrderFiles(RefundHeaders, RefundLines, MaxOrders, MaxLines),
           SeqsUpTo(RefundRows, MaxRefunds), {{}}, 1)

NextRefund == InvokeRefund \/ Load \/ Clean \/ Enrich \/ Aggregate \/ Export({"none"})

SpecRefund == Init /\ [][NextRefund]_vars

-----------------------------------------------------------------------------
(* SpecAgg: one run over orders that differ in channel, date and customer,  *)
(* any of which may be missing (a customer without a city, a null channel,  *)
(* a null timestamp); every record is paid and has one valid line.          *)

AggRecords ==
    {OrderRecord(h, <<[qty |-> 1, unit_price |-> <<10>>]>>) :
        h \in OrderHeaders({1, 2}, {1, 2}, {"web", "app", NA}, {T1, T2, NaT}, {"paid"})}

AggTables ==
    {t \in CustomerTables(<<1, 2>>, CustomerRows({1}, {"Paris"}, {TRUE})
                                      \cup CustomerRows({2}, {"Paris", "Lyon", NA}, {TRUE})) :
        Len(t) = 2}

InvokeAgg ==
    Invoke({"2024-01-15"}, AggTables, SeqsUpTo(AggRecords, MaxOrders), {<<>>}, {{}}, 1)

NextAgg == InvokeAgg \/ Load \/ Clean \/ Enrich \/ Aggregate \/ Export({"none"})

SpecAgg == Init /\ [][NextAgg]_vars

-----------------------------------------------------------------------------
(* SpecRuns: several runs, for the same date or another one; an input file  *)
(* may be missing and a write of the export may fail.                       *)

RunRecords ==
    {OrderRecord(h, items) :
        h \in OrderHeaders({1}, {1}, {"web"}, {T1}, {"paid"}),
        items \in {<<[qty |-> 1, unit_price |-> <<10>>]>>,
                   <<[qty |-> 1, unit_price |-> <<10>>], [qty |-> 1, unit_price |-> <<-5>>]>>}}

RunFiles == {<<>>} \cup {<<r>> : r \in RunRecords}

RunTables == {<<[customer_id |-> 1, city |-> "Paris", is_active |-> TRUE]>>}

InvokeRuns ==
    Invoke(Range(DateOrder), RunTables, RunFiles, {<<>>},
           {{}} \cup {{src} : src \in Sources}, MaxRuns)

NextRuns ==
    InvokeRuns \/ Load \/ Clean \/ Enrich \/ Aggregate \/ Export({"none"} \cup Range(SinkWrites))

SpecRuns == Init /\ [][NextRuns]_vars

-----------------------------------------------------------------------------
(* Vocabulary of the properties *)

AfterClean     == pc \in {"enrich", "aggregate", "export", "done", "export_failed"}
AfterEnrich    == pc \in {"aggregate", "export", "done", "export_failed"}
AfterAggregate == pc \in {"export", "done", "export_failed"}

\* The number of rows of a frame equal to x.
CountIn(df, x) == Cardinality({i \in 1..Len(df) : df[i] = x})

\* The sum of V(i) over the indices i of a finite set.
RECURSIVE SumOver(_, _)
SumOver(V(_), I) ==
    IF I = {} THEN 0
    ELSE LET i == CHOOSE j \in I : TRUE IN V(i) + SumOver(V, I \ {i})

\* The loaded line items (main()'s df_items, which no stage reassigns) of paid records.
PaidItems == SelectSeq(df_items, LAMBDA r : r.payment_status = "paid")

IsActive(cid) ==
    \E i \in 1..Len(customers_csv) :
        customers_csv[i].customer_id = cid /\ customers_csv[i].is_active

IsInactive(cid) ==
    \E i \in 1..Len(customers_csv) :
        customers_csv[i].customer_id = cid /\ ~customers_csv[i].is_active

-----------------------------------------------------------------------------
(* C1 *)

\* C1: only the first-seen paid record of an order_id is retained, and the line
\* items of a later record with the same order_id add nothing to any output: the
\* order-revenue rows (gross_revenue, items_sold), the daily summary and the
\* rejected items are those of the retained records (df_orders after cleaning)
\* alone, and every item behind an order-revenue row has exactly one active customer.
C1_OnlyRetainedRecordsCount ==
    AfterAggregate =>
        LET retained == run_pipeline(customers_csv, df_orders, refunds_csv)
        IN  /\ df_order_revenue = retained.df_order_revenue
            /\ df_daily_summary = retained.df_daily_summary
            /\ df_items_rejected = retained.df_items_rejected
            /\ \A i \in 1..Len(df_items_full) :
                 Cardinality({j \in 1..Len(customers_csv) :
                     /\ customers_csv[j].customer_id = df_items_full[i].customer_id
                     /\ customers_csv[j].is_active}) = 1

-----------------------------------------------------------------------------
(* C2 *)

\* C2: after clean_data the valid and the rejected items are disjoint, together
\* they are exactly the paid items (none is lost, whatever its unit_price, a
\* missing one included), and a paid item is rejected iff its unit_price < 0.
C2_PartitionOfPaidItems ==
    AfterClean =>
        /\ Range(df_items_clean) \cap Range(df_items_rejected) = {}
        /\ \A x \in Range(PaidItems) \cup Range(df_items_clean) \cup Range(df_items_rejected) :
             CountIn(df_items_clean, x) + CountIn(df_items_rejected, x) = CountIn(PaidItems, x)
        /\ \A i \in 1..Len(PaidItems) :
             PaidItems[i] \in Range(df_items_rejected)
                 <=> (PaidItems[i].unit_price # NaN /\ PaidItems[i].unit_price[1] < 0)

-----------------------------------------------------------------------------
(* C3 *)

\* The indices of the loaded line items of order o that survive: paid, a price that
\* is not negative, an active customer.
Surviving(o) ==
    {i \in 1..Len(df_items) :
        /\ df_items[i].order_id = o
        /\ df_items[i].payment_status = "paid"
        /\ df_items[i].unit_price # NaN
        /\ df_items[i].unit_price[1] >= 0
        /\ IsActive(df_items[i].customer_id)}

RefundsOf(o) == {i \in 1..Len(refunds_csv) : refunds_csv[i].order_id = o}

\* C3: for every order of the order-revenue output of enrich_and_calculate,
\* gross_revenue is the sum of qty * unit_price over the order's surviving items,
\* refunds_amount is the sum of the amounts of the ledger's refunds for that order
\* (0 when there is none), whatever their sign, and net_revenue is their sum; the
\* output has one row for each order that has a surviving item.
C3_RevenueConservation ==
    AfterEnrich =>
        /\ \A i \in 1..Len(df_order_revenue) :
             LET row == df_order_revenue[i]
             IN  /\ row.gross_revenue =
                        SumOver(LAMBDA j : df_items[j].qty * df_items[j].unit_price[1],
                                Surviving(row.order_id))
                 /\ row.refunds_amount =
                        SumOver(LAMBDA j : refunds_csv[j].amount, RefundsOf(row.order_id))
                 /\ row.net_revenue = row.gross_revenue + row.refunds_amount
        /\ \A i, j \in 1..Len(df_order_revenue) :
             df_order_revenue[i].order_id = df_order_revenue[j].order_id => i = j
        /\ {df_order_revenue[i].order_id : i \in 1..Len(df_order_revenue)}
             = {df_items[i].order_id : i \in {j \in 1..Len(df_items) :
                                                Surviving(df_items[j].order_id) # {}}}

\* An order with a surviving line and a refund, and a line of it that does not survive.
C3_Witness ==
    /\ pc = "done"
    /\ \E i \in 1..Len(df_order_revenue) :
         /\ df_order_revenue[i].gross_revenue > 0
         /\ df_order_revenue[i].refunds_amount # 0
         /\ df_order_revenue[i].net_revenue # df_order_revenue[i].gross_revenue
         /\ \E j \in 1..Len(df_items) :
              /\ df_items[j].order_id = df_order_revenue[i].order_id
              /\ j \notin Surviving(df_order_revenue[i].order_id)

-----------------------------------------------------------------------------
(* C4 *)

\* The order_ids of the day's cleaned order set (df_orders after clean_data).
CleanedOrderIds == {df_orders[i].order_id : i \in 1..Len(df_orders)}

InScope(refunds) == SelectSeq(refunds, LAMBDA r : r.order_id \in CleanedOrderIds)

\* C4: a refund whose order_id is not in the day's cleaned order set affects no
\* output: the order-revenue rows, the daily summary and the rejected items of the
\* run are those of a run over the same customers and orders and the ledger without
\* these refunds.  (Two ledgers that differ only in such refunds have the same
\* restriction, hence the same outputs.)
C4_RefundScoping ==
    AfterAggregate =>
        LET scoped == run_pipeline(customers_csv, orders_json, InScope(refunds_csv))
        IN  /\ df_order_revenue = scoped.df_order_revenue
            /\ df_daily_summary = scoped.df_daily_summary
            /\ df_items_rejected = scoped.df_items_rejected

\* A ledger with a refund for an order outside the cleaned set, and an order with revenue.
C4_Witness ==
    /\ pc = "done"
    /\ df_order_revenue # <<>>
    /\ InScope(refunds_csv) # refunds_csv

-----------------------------------------------------------------------------
(* C5 *)

\* The indices of the order-revenue rows with the date, city and channel of summary row s.
Members(s) ==
    {i \in 1..Len(df_order_revenue) :
        /\ df_order_revenue[i].date = s.date
        /\ df_order_revenue[i].city = s.city
        /\ df_order_revenue[i].channel = s.channel}

\* C5: for every (date, city, channel) row of the daily summary, gross_revenue_eur
\* is the sum of gross_revenue over the order-revenue rows with that date, city
\* and channel, orders_count is their number, and unique_customers <= orders_count.
C5_AggregateConservation ==
    AfterAggregate =>
        \A k \in 1..Len(df_daily_summary) :
            LET s == df_daily_summary[k]
            IN  /\ s.gross_revenue_eur =
                       SumOver(LAMBDA i : df_order_revenue[i].gross_revenue, Members(s))
                /\ s.orders_count = Cardinality(Members(s))
                /\ s.unique_customers <= s.orders_count

\* A summary row of two orders of one customer.
C5_Witness ==
    /\ pc = "done"
    /\ \E k \in 1..Len(df_daily_summary) :
         /\ df_daily_summary[k].orders_count = 2
         /\ df_daily_summary[k].unique_customers = 1
         /\ df_daily_summary[k].gross_revenue_eur = 20

-----------------------------------------------------------------------------
(* C10 *)

\* C10: no order is lost or counted twice by the aggregation: every order-revenue
\* row returned by aggregate_daily belongs to exactly one daily summary row, so the
\* orders_count of the summary add up to the number of order-revenue rows and its
\* gross, refund and net totals to those of the order-revenue rows, also when an
\* order has no city, no channel or no date.
C10_NoOrderLost ==
    AfterAggregate =>
        LET orders  == 1..Len(df_order_revenue)
            summary == 1..Len(df_daily_summary)
        IN  /\ \A i \in orders :
                 Cardinality({k \in summary : i \in Members(df_daily_summary[k])}) = 1
            /\ SumOver(LAMBDA k : df_daily_summary[k].orders_count, summary)
                 = Len(df_order_revenue)
            /\ SumOver(LAMBDA k : df_daily_summary[k].gross_revenue_eur, summary)
                 = SumOver(LAMBDA i : df_order_revenue[i].gross_revenue, orders)
            /\ SumOver(LAMBDA k : df_daily_summary[k].refunds_eur, summary)
                 = SumOver(LAMBDA i : df_order_revenue[i].refunds_amount, orders)
            /\ SumOver(LAMBDA k : df_daily_summary[k].net_revenue_eur, summary)
                 = SumOver(LAMBDA i : df_order_revenue[i].net_revenue, orders)

-----------------------------------------------------------------------------
(* C7 *)

\* The order_ids of the day with a paid record, whose paid records all name a
\* customer with is_active = false.
InactiveOrders ==
    {o \in {orders_json[i].order_id : i \in 1..Len(orders_json)} :
        \A i \in 1..Len(orders_json) :
            (orders_json[i].order_id = o /\ orders_json[i].payment_status = "paid")
                => IsInactive(orders_json[i].customer_id)} \cap
    {orders_json[i].order_id : i \in {j \in 1..Len(orders_json) :
                                        orders_json[j].payment_status = "paid"}}

\* The day's file without the records of the orders of InactiveOrders.
WithoutInactiveOrders == SelectSeq(orders_json, LAMBDA r : r.order_id \notin InactiveOrders)

RejectedRowsOf(o) ==
    SelectSeq(rejected_items_csv[date_str].rows, LAMBDA r : r.order_id = o)

\* The order is in no order-revenue row, and the daily summary is the one of the day
\* without the order.
AbsentFromRevenueAndSummary(o) ==
    /\ \A i \in 1..Len(df_order_revenue) : df_order_revenue[i].order_id # o
    /\ df_daily_summary =
           run_pipeline(customers_csv, WithoutInactiveOrders, refunds_csv).df_daily_summary

\* C7 as stated: a paid order of an inactive customer is absent from the order
\* revenue and from the daily summary, and none of its items is in the
\* rejected-items output.
C7_InactiveOrderLeavesNoTrace ==
    AfterAggregate =>
        \A o \in InactiveOrders :
            /\ AbsentFromRevenueAndSummary(o)
            /\ RejectedRowsOf(o) = <<>>

\* C7 as amended: a paid order of an inactive customer is absent from the order
\* revenue and from the daily summary; its items are in the rejected-items output
\* exactly when their unit_price is negative, as for any other order.
C7_InactiveOrderDropped ==
    AfterAggregate =>
        \A o \in InactiveOrders :
            /\ AbsentFromRevenueAndSummary(o)
            /\ RejectedRowsOf(o) =
                   SelectSeq(PaidItems, LAMBDA r : /\ r.order_id = o
                                                   /\ r.unit_price # NaN
                                                   /\ r.unit_price[1] < 0)

\* A paid order of an inactive customer with a valid line, beside an order with revenue.
C7_Witness ==
    /\ pc = "done"
    /\ df_order_revenue # <<>>
    /\ \E i \in 1..Len(PaidItems) :
         /\ PaidItems[i].order_id \in InactiveOrders
         /\ PaidItems[i].unit_price # NaN
         /\ PaidItems[i].unit_price[1] >= 0

-----------------------------------------------------------------------------
(* C6 *)

RunSucceeds == pc = "export" /\ pc' = "done"
RunFailsInExport == pc = "export" /\ pc' = "export_failed"

AppendsBoth ==
    /\ orders_clean' = orders_clean \o df_order_revenue
    /\ daily_city_sales' = daily_city_sales \o df_daily_summary

\* C6 as stated: each table of the cumulative store is the concatenation, in run
\* order, of the rows of the successful runs: a successful run appends its rows to
\* both tables (again if the date was processed before), and nothing else changes a
\* table.
C6_OnlySuccessfulRunsAppend ==
    [][/\ RunSucceeds => AppendsBoth
       /\ ~RunSucceeds => UNCHANGED <<orders_clean, daily_city_sales>>]_vars

\* C6 as amended: a run only appends, and never changes or deletes an earlier row:
\* a successful run appends its rows to both tables (again if the date was
\* processed before); a run that fails in the export appends nothing to the daily
\* summary table and either nothing or all its order rows to the order table (no
\* rollback); nothing else changes a table.
C6_RunsOnlyAppend ==
    [][/\ RunSucceeds => AppendsBoth
       /\ RunFailsInExport =>
            /\ UNCHANGED daily_city_sales
            /\ orders_clean' \in {orders_clean, orders_clean \o df_order_revenue}
       /\ pc # "export" => UNCHANGED <<orders_clean, daily_city_sales>>]_vars

\* The second successful run of a date over the same input: its rows are in the store twice.
C6_Witness ==
    /\ pc = "done"
    /\ runs = 2
    /\ df_order_revenue # <<>>
    /\ orders_clean = df_order_revenue \o df_order_revenue
    /\ daily_city_sales = df_daily_summary \o df_daily_summary

-----------------------------------------------------------------------------
(* C8 *)

\* C8: when the customer file, the day's order file or the refund ledger cannot be
\* read, the run ends in the load stage: no later stage runs, and the run writes no
\* rejected-items file, no daily summary snapshot and no row of the cumulative store.
C8_LoadFailureAborts ==
    /\ [](unavailable # {} => pc \in {"load", "load_failed"})
    /\ [][unavailable # {} => UNCHANGED outputs]_vars
    /\ [][(pc = "load" /\ unavailable # {}) => pc' = "load_failed"]_vars

\* A run that failed to load, after a run that had written its outputs.
C8_Witness ==
    /\ pc = "load_failed"
    /\ "refunds" \in unavailable
    /\ orders_clean # <<>>
    /\ daily_summary_csv["2024-01-15"].exists

-----------------------------------------------------------------------------
(* C9 *)

\* C9 as stated: once a run for date d has completed the cleaning stage, the
\* rejected-items output of d exists iff the run's rejected partition is not empty,
\* and then holds exactly the run's rejected items.
C9_RejectedFileIffRejects ==
    AfterClean =>
        /\ rejected_items_csv[date_str].exists <=> df_items_rejected # <<>>
        /\ rejected_items_csv[date_str].exists
               => rejected_items_csv[date_str].rows = df_items_rejected

\* C9 as amended: once a run for date d has completed the cleaning stage with a
\* rejected partition that is not empty, the rejected-items output of d exists and
\* holds exactly the run's rejected items; a cleaning stage whose rejected partition
\* is empty leaves the rejected-items outputs as they were (that of an earlier run
\* of d stays), and no run touches the output of another date.
C9_RejectedFileWrittenWhenRejects ==
    /\ [](AfterClean /\ df_items_rejected # <<>>
            => rejected_items_csv[date_str] = File(df_items_rejected))
    /\ [][(pc = "clean" /\ df_items_rejected' = <<>>) => UNCHANGED rejected_items_csv]_vars
    /\ [][\A d \in DOMAIN rejected_items_csv :
            d # date_str => rejected_items_csv'[d] = rejected_items_csv[d]]_vars

\* A second run of a date without rejects, the rejected items of the first still on file.
C9_Witness ==
    /\ pc = "enrich"
    /\ runs = 2
    /\ df_items # <<>>
    /\ df_items_rejected = <<>>
    /\ rejected_items_csv[date_str].exists


====
